---------------------------- MODULE Spec2Model ----------------------------
(***************************************************************************)
(* Construction of the CDL dataset accessor (torchgeo/datasets/cdl.py).    *)
(*                                                                         *)
(* A Python string is modelled as a sequence of chunks (TLA+ strings); an  *)
(* integer is rendered into its decimal digits by str.format.  The files   *)
(* under root are a function from path to content checksum, together with  *)
(* the set of archives that have been unpacked in place.                   *)
(***************************************************************************)
EXTENDS Integers, Sequences, FiniteSets, TLC

VARIABLES
    download,   \* argument download of __init__
    checksum,   \* self.checksum
    served,     \* what the remote host serves: "genuine" or "stale" archives
    disk,       \* files under root: [files: path -> md5 of content, unpacked: set of paths]
    disk0,      \* disk when the current construction began
    pc,         \* position of the construction
    i,          \* index into md5s of the download loop
    calls,      \* download_and_extract_archive invocations of this construction
    checks,     \* number of _check_integrity runs of this construction
    events,     \* the phases __init__ went through, in order
    printed,    \* whether the "already downloaded" notice was printed
    error,      \* the exception that left __init__, or NoError
    nconstruct  \* number of constructions begun on this root

vars == <<download, checksum, served, disk, disk0, pc, i, calls, checks,
          events, printed, error, nconstruct>>

-----------------------------------------------------------------------------
(* Bounds of the model *)

\* at most this many years of the initial root deviate from the uniform base
MaxAltered == 1

\* at most this many constructions on the same root
MaxConstructions == 2

-----------------------------------------------------------------------------
(* Class attributes *)

url == <<"https://www.nass.usda.gov/Research_and_Science/Cropland/Release/datasets/",
         "{}", "_30m_cdls.zip">>

md5s == <<
    <<2020, "97b3b5fd62177c9ed857010bca146f36">>,
    <<2019, "49d8052168c15c18f8b81ee21397b0bb">>,
    <<2018, "c7a3061585131ef049bec8d06c6d521e">>,
    <<2017, "dc8c1d7b255c9258d332dd8b23546c93">>,
    <<2016, "bb4df1b2ee6cedcc12a7e5a4527fcf1b">>,
    <<2015, "d17b4bb6ee7940af2c45d6854dafec09">>,
    <<2014, "6e0fcc800bd9f090f543104db93bead8">>,
    <<2013, "38df780d8b504659d837b4c53a51b3f7">>,
    <<2012, "2f3b46e6e4d91c3b7e2a049ba1531abc">>,
    <<2011, "dac7fe435c3c5a65f05846c715315460">>,
    <<2010, "18c9a00f5981d5d07ace69e3e33ea105">>,
    <<2009, "81a20629a4713de6efba2698ccb2aa3d">>,
    <<2008, "e6aa3967e379b98fd30c26abe9696053">> >>

\* variant of filename: the archive suffix misspelt
filename_typo == <<"{}", "_30m_cdl.zip">>

\* the template of _check_integrity's file name
filename == <<"{}", "_30m_cdls.zip">>

\* default value of the argument root
root == "data"

None == "None"

-----------------------------------------------------------------------------
(* Python built-ins *)

DigitChar == <<"0", "1", "2", "3", "4", "5", "6", "7", "8", "9">>

\* str(n) of a non-negative integer, as its sequence of decimal digits
RECURSIVE str(_)
str(n) == IF n < 10 THEN <<DigitChar[n + 1]>>
          ELSE str(n \div 10) \o <<DigitChar[(n % 10) + 1]>>

\* template.format(arg): every "{}" is replaced by str(arg)
RECURSIVE format(_, _)
format(template, arg) ==
    IF template = <<>> THEN <<>>
    ELSE (IF Head(template) = "{}" THEN str(arg) ELSE <<Head(template)>>)
         \o format(Tail(template), arg)

\* os.path.join(a, b) of a directory name and a relative file name
join(a, b) == <<a, "/">> \o b

\* a chunk that ends in a path separator
IsDir(c) == c \in {url[1], "/"}

\* os.path.basename(p): what follows the last path separator
RECURSIVE basename(_)
basename(p) ==
    IF \E k \in 1..Len(p) : IsDir(p[k]) THEN basename(Tail(p)) ELSE p

-----------------------------------------------------------------------------
(* Collaborators from .utils *)

NoError == [type |-> "none", msg |-> "", origin |-> "none"]

URLError == [type |-> "URLError", msg |-> "fetch failed",
             origin |-> "download_and_extract_archive"]

CorruptedError == [type |-> "RuntimeError", msg |-> "File not found or corrupted.",
                   origin |-> "download_and_extract_archive"]

\* check_integrity(path, md5): the file exists and, when an md5 is given,
\* the md5 of its content is that one
check_integrity(d, fpath, md5) ==
    /\ fpath \in DOMAIN d.files
    /\ md5 # None => d.files[fpath] = md5

\* the content the remote host returns for a URL ("404" when it has none)
Remote(u) ==
    IF \E k \in 1..Len(md5s) : u = <<url[1]>> \o str(md5s[k][1]) \o <<url[3]>>
    THEN LET k == CHOOSE k \in 1..Len(md5s) :
                      u = <<url[1]>> \o str(md5s[k][1]) \o <<url[3]>>
         IN  IF served = "genuine" THEN md5s[k][2]
             ELSE md5s[(k % Len(md5s)) + 1][2]
    ELSE "404"

\* download_and_extract_archive(u, download_root, md5) on disk d, where fetched
\* says whether the transfer went through: the archive is stored at
\* download_root/basename(u), verified when an md5 is given, and unpacked
download_and_extract_archive(d, u, download_root, md5, fetched) ==
    LET fpath == join(download_root, basename(u))
        stored == [d EXCEPT !.files =
                      [p \in DOMAIN d.files \cup {fpath} |->
                          IF p = fpath THEN Remote(u) ELSE d.files[p]]]
    IN  IF ~fetched \/ Remote(u) = "404"
        THEN [disk |-> d, error |-> URLError]
        ELSE IF ~check_integrity(stored, fpath, md5)
        THEN [disk |-> stored, error |-> CorruptedError]
        ELSE [disk |-> [stored EXCEPT !.unpacked = @ \cup {fpath}],
              error |-> NoError]

-----------------------------------------------------------------------------
(* CDL *)

DatasetError ==
    [type |-> "RuntimeError",
     msg |-> "Dataset not found or corrupted. You can use download=True to download it",
     origin |-> "__init__"]

\* variant of md5_arg: the checksum flag ignored, the md5 always passed
md5_arg_always(md5) == md5

\* variant of md5_arg: the checksum flag ignored, no md5 ever passed
md5_arg_none(md5) == None

\* the argument md5 of both collaborators: md5 if self.checksum else None
md5_arg(md5) == IF checksum THEN md5 ELSE None

\* variant of check_from: "return True" inside the loop, so that the result
\* is that of the first entry alone
check_first(d, k) ==
    IF k > Len(md5s) THEN TRUE
    ELSE check_integrity(d, join(root, format(filename, md5s[k][1])),
                         md5_arg(md5s[k][2]))

\* the loop of _check_integrity from entry k on, returning at the first
\* entry that fails
RECURSIVE check_from(_, _)
check_from(d, k) ==
    IF k > Len(md5s) THEN TRUE
    ELSE LET year == md5s[k][1]
             md5 == md5s[k][2]
             filepath == join(root, format(filename, year))
         IN  IF ~check_integrity(d, filepath, md5_arg(md5)) THEN FALSE
             ELSE check_from(d, k + 1)

_check_integrity(d) == check_from(d, 1)

-----------------------------------------------------------------------------
(* The initial root *)

Absent == "absent"

\* the archive of entry k as root holds it in base b
BaseContent(b, k) ==
    CASE b = "empty" -> Absent
      [] b = "verified" -> md5s[k][2]
      [] b = "stale" -> md5s[(k % Len(md5s)) + 1][2]

Disks ==
    { [files |-> [p \in {join(root, str(md5s[k][1]) \o <<"_30m_cdls.zip">>) :
                            k \in {j \in 1..Len(md5s) : c[j] # Absent}} |->
                     LET k == CHOOSE j \in 1..Len(md5s) :
                                p = join(root, str(md5s[j][1]) \o <<"_30m_cdls.zip">>)
                     IN  c[k]],
       unpacked |-> {}] :
      c \in UNION { UNION { { [k \in 1..Len(md5s) |->
                                  BaseContent(IF k \in S THEN alt[k] ELSE b, k)] :
                              alt \in [S -> {"empty", "verified", "stale"}] } :
                            S \in {T \in SUBSET (1..Len(md5s)) :
                                      Cardinality(T) <= MaxAltered} } :
                    b \in {"empty", "verified", "stale"} } }

Init ==
    /\ download \in BOOLEAN
    /\ checksum \in BOOLEAN
    /\ served \in {"genuine", "stale"}
    /\ disk \in Disks
    /\ disk0 = disk
    /\ pc = "__init__"
    /\ i = 1
    /\ calls = <<>>
    /\ checks = 0
    /\ events = <<>>
    /\ printed = FALSE
    /\ error = NoError
    /\ nconstruct = 1

-----------------------------------------------------------------------------
(* CDL.__init__ and CDL._download, one action per phase *)

\* variant of __init__: the download phase entered whatever download is
__init___always_download ==
    /\ pc = "__init__"
    /\ pc' = "_download"
    /\ events' = Append(events, "_download")
    /\ UNCHANGED <<download, checksum, served, disk, disk0, i, calls, checks,
                   printed, error, nconstruct>>

\* __init__ up to the test of download
__init__ ==
    /\ pc = "__init__"
    /\ pc' = IF download THEN "_download" ELSE "_check_integrity"
    /\ events' = IF download THEN Append(events, "_download") ELSE events
    /\ UNCHANGED <<download, checksum, served, disk, disk0, i, calls, checks,
                   printed, error, nconstruct>>

\* _download when the integrity check passes: the notice, and return
_download_verified ==
    /\ pc = "_download"
    /\ _check_integrity(disk)
    /\ checks' = checks + 1
    /\ printed' = TRUE
    /\ pc' = "_check_integrity"
    /\ UNCHANGED <<download, checksum, served, disk, disk0, i, calls, events,
                   error, nconstruct>>

\* variant of _download_begin: no early return, the loop entered even when
\* the integrity check passes
_download_begin_unconditional ==
    /\ pc = "_download"
    /\ checks' = checks + 1
    /\ i' = 1
    /\ pc' = "download_and_extract_archive"
    /\ UNCHANGED <<download, checksum, served, disk, disk0, calls, events,
                   printed, error, nconstruct>>

\* _download when the integrity check fails: enter the loop over md5s
_download_begin ==
    /\ pc = "_download"
    /\ ~_check_integrity(disk)
    /\ checks' = checks + 1
    /\ i' = 1
    /\ pc' = "download_and_extract_archive"
    /\ UNCHANGED <<download, checksum, served, disk, disk0, calls, events,
                   printed, error, nconstruct>>

\* variant of _download_call: an exception of the callee is caught and the
\* loop goes on to the next entry
_download_call_swallow ==
    /\ pc = "download_and_extract_archive"
    /\ \E fetched \in BOOLEAN :
          LET year == md5s[i][1]
              md5 == md5s[i][2]
              u == format(url, year)
              r == download_and_extract_archive(disk, u, root, md5_arg(md5), fetched)
          IN  /\ calls' = Append(calls, [url |-> u, download_root |-> root,
                                          md5 |-> md5_arg(md5)])
              /\ disk' = r.disk
              /\ error' = r.error
              /\ i' = i + 1
              /\ pc' = IF i = Len(md5s) THEN "_check_integrity"
                       ELSE "download_and_extract_archive"
    /\ UNCHANGED <<download, checksum, served, disk0, checks, events, printed,
                   nconstruct>>

\* variant of _download_call: an entry whose archive passes check_integrity
\* is skipped, only the failing years are fetched
_download_call_missing_only ==
    /\ pc = "download_and_extract_archive"
    /\ \E fetched \in BOOLEAN :
          LET year == md5s[i][1]
              md5 == md5s[i][2]
              u == format(url, year)
              skip == check_integrity(disk, join(root, format(filename, year)),
                                      md5_arg(md5))
              r == IF skip THEN [disk |-> disk, error |-> NoError]
                   ELSE download_and_extract_archive(disk, u, root, md5_arg(md5),
                                                     fetched)
          IN  /\ calls' = IF skip THEN calls
                          ELSE Append(calls, [url |-> u, download_root |-> root,
                                              md5 |-> md5_arg(md5)])
              /\ disk' = r.disk
              /\ error' = r.error
              /\ IF r.error # NoError
                 THEN pc' = "raised" /\ i' = i
                 ELSE /\ i' = i + 1
                      /\ pc' = IF i = Len(md5s) THEN "_check_integrity"
                               ELSE "download_and_extract_archive"
    /\ UNCHANGED <<download, checksum, served, disk0, checks, events, printed,
                   nconstruct>>

\* one iteration of the loop of _download: the call for md5s[i]; an
\* exception of the callee leaves _download and __init__
_download_call ==
    /\ pc = "download_and_extract_archive"
    /\ \E fetched \in BOOLEAN :
          LET year == md5s[i][1]
              md5 == md5s[i][2]
              u == format(url, year)
              r == download_and_extract_archive(disk, u, root, md5_arg(md5), fetched)
          IN  /\ calls' = Append(calls, [url |-> u, download_root |-> root,
                                          md5 |-> md5_arg(md5)])
              /\ disk' = r.disk
              /\ error' = r.error
              /\ IF r.error # NoError
                 THEN pc' = "raised" /\ i' = i
                 ELSE /\ i' = i + 1
                      /\ pc' = IF i = Len(md5s) THEN "_check_integrity"
                               ELSE "download_and_extract_archive"
    /\ UNCHANGED <<download, checksum, served, disk0, checks, events, printed,
                   nconstruct>>

\* variant of __init___check: the result of the integrity check is not
\* acted on, the base constructor is always reached
__init___check_no_raise ==
    /\ pc = "_check_integrity"
    /\ checks' = checks + 1
    /\ pc' = "constructed"
    /\ error' = error
    /\ events' = events \o <<"_check_integrity", "super().__init__">>
    /\ UNCHANGED <<download, checksum, served, disk, disk0, i, calls, printed,
                   nconstruct>>

\* __init__ from the integrity check on: raise, or the base constructor
__init___check ==
    /\ pc = "_check_integrity"
    /\ checks' = checks + 1
    /\ IF ~_check_integrity(disk)
       THEN /\ pc' = "raised"
            /\ error' = DatasetError
            /\ events' = Append(events, "_check_integrity")
       ELSE /\ pc' = "constructed"
            /\ error' = error
            /\ events' = events \o <<"_check_integrity", "super().__init__">>
    /\ UNCHANGED <<download, checksum, served, disk, disk0, i, calls, printed,
                   nconstruct>>

\* a further accessor is constructed, with the same arguments, on the root
\* of one that was constructed
Reconstruct ==
    /\ pc = "constructed"
    /\ nconstruct < MaxConstructions
    /\ nconstruct' = nconstruct + 1
    /\ disk0' = disk
    /\ pc' = "__init__"
    /\ i' = 1
    /\ calls' = <<>>
    /\ checks' = 0
    /\ events' = <<>>
    /\ printed' = FALSE
    /\ error' = NoError
    /\ UNCHANGED <<download, checksum, served, disk>>

Next ==
    \/ __init__
    \/ _download_verified
    \/ _download_begin
    \/ _download_call
    \/ __init___check
    \/ Reconstruct

Spec == Init /\ [][Next]_vars

\* the construction is sequential code that runs to its end
FairSpec == Spec /\ WF_vars(Next)

-----------------------------------------------------------------------------
(* Vocabulary of the properties, written from the documented layout of     *)
(* the dataset and not from the definitions above                          *)

Years == 2008..2020

\* the decimal text of a four-digit year
YearText(y) ==
    <<DigitChar[(y \div 1000) + 1], DigitChar[((y \div 100) % 10) + 1],
      DigitChar[((y \div 10) % 10) + 1], DigitChar[(y % 10) + 1]>>

\* root/<year>_30m_cdls.zip
ArchivePath(y) == <<"data", "/">> \o YearText(y) \o <<"_30m_cdls.zip">>

\* the URL of a year's archive
ArchiveUrl(y) ==
    <<"https://www.nass.usda.gov/Research_and_Science/Cropland/Release/datasets/">>
    \o YearText(y) \o <<"_30m_cdls.zip">>

\* the MD5 the registry holds for a year
Registered(y) == md5s[CHOOSE k \in 1..Len(md5s) : md5s[k][1] = y][2]

Present(d, y) == ArchivePath(y) \in DOMAIN d.files

Matches(d, y) == Present(d, y) /\ d.files[ArchivePath(y)] = Registered(y)

\* the archive of year y passes for the checksum flag of the construction
Valid(d, y) == IF checksum THEN Matches(d, y) ELSE Present(d, y)

AllValid(d) == \A y \in Years : Valid(d, y)

Done == pc \in {"constructed", "raised"}

SuperCalled == \E k \in 1..Len(events) : events[k] = "super().__init__"

\* the construction has ended or can take a step
Progress == Done \/ ENABLED Next

-----------------------------------------------------------------------------
(* Properties *)

\* C1: with download=False and the archive of at least one registered year
\* missing from root, construction fails with the "Dataset not found or
\* corrupted" RuntimeError whatever the other archives are; the base
\* constructor is never invoked and download_and_extract_archive never called.
C1_MissingYearRaises ==
    (~download /\ \E y \in Years : ~Present(disk0, y)) =>
        /\ calls = <<>>
        /\ ~SuperCalled
        /\ pc \in {"__init__", "_check_integrity", "raised"}
        /\ pc = "raised" => error = DatasetError
        /\ Progress

C1_Witness ==
    /\ pc = "raised"
    /\ ~download
    /\ ~checksum
    /\ ~Present(disk0, 2014)
    /\ \A y \in Years \ {2014} : Present(disk0, y)

\* C2: the base constructor is invoked only when every registered year's
\* archive exists and, with checksum=True, has the registered MD5; in every
\* other case construction ends by raising.
C2_SuperOnlyWhenAllValid ==
    /\ SuperCalled <=> pc = "constructed"
    /\ pc = "constructed" => AllValid(disk) /\ error = NoError
    /\ pc = "raised" => error # NoError
    /\ (pc = "raised" /\ error = DatasetError) => ~AllValid(disk)
    /\ (pc = "_check_integrity" /\ ~AllValid(disk)) => ~ENABLED (Next /\ pc' = "constructed")
    /\ Progress

C2_Witness ==
    /\ pc = "constructed"
    /\ download
    /\ checksum
    /\ Len(calls) = Len(md5s)
    /\ ~AllValid(disk0)

\* C3: with download=True and every archive already passing the integrity
\* check, download_and_extract_archive is called zero times, the files under
\* root are unchanged and construction reaches the base constructor; so does
\* a second construction on the same root.
C3_VerifiedDownloadIsNoOp ==
    (download /\ AllValid(disk0)) =>
        /\ calls = <<>>
        /\ disk = disk0
        /\ pc \in {"__init__", "_download", "_check_integrity", "constructed"}
        /\ pc \in {"_check_integrity", "constructed"} => printed
        /\ Progress

C3_Witness ==
    /\ pc = "constructed"
    /\ download
    /\ AllValid(disk0)
    /\ calls = <<>>
    /\ nconstruct = 2

\* C4: with download=True and checksum=False on an empty root, when no
\* download call fails, download_and_extract_archive is invoked exactly 13
\* times, once for each year 2008..2020, each with that year's URL, root as
\* destination and md5 = None.
C4_ThirteenDownloads ==
    (download /\ ~checksum /\ DOMAIN disk0.files = {}
        /\ (pc \in {"_check_integrity", "constructed"} \/ error = DatasetError)) =>
        /\ Len(calls) = 13
        /\ \A y \in Years :
              Cardinality({k \in 1..Len(calls) : calls[k].url = ArchiveUrl(y)}) = 1
        /\ \A k \in 1..Len(calls) :
              calls[k].download_root = "data" /\ calls[k].md5 = "None"

C4_Witness ==
    /\ pc = "constructed"
    /\ download
    /\ ~checksum
    /\ DOMAIN disk0.files = {}
    /\ Len(calls) = 13

\* C5: with checksum=True the integrity check fails whenever some year's
\* archive exists with a checksum other than the one registered for that
\* same year, or only some of the archives are present; with download=False
\* construction then raises the missing/corrupted error.
C5_MismatchFailsIntegrity ==
    checksum =>
        /\ (\E y \in Years : ~Matches(disk, y)) => ~_check_integrity(disk)
        /\ (~download /\ \E y \in Years : ~Matches(disk0, y)) =>
              /\ pc \in {"__init__", "_check_integrity", "raised"}
              /\ pc = "raised" => error = DatasetError
              /\ Progress

C5_Witness ==
    /\ pc = "raised"
    /\ checksum
    /\ ~download
    /\ \A y \in Years : Present(disk0, y)
    /\ disk0.files[ArchivePath(2020)] = Registered(2019)
    /\ \A y \in Years \ {2020} : Matches(disk0, y)

\* C6: when download_and_extract_archive fails for some year, its error
\* leaves construction unchanged: no download for any later entry, no retry
\* of the failed one, no integrity check after the download phase, no
\* missing/corrupted RuntimeError in its place, no base constructor.
C6_DownloadFailurePropagates ==
    error.origin = "download_and_extract_archive" =>
        /\ pc = "raised"
        /\ error \in {URLError, CorruptedError}
        /\ Len(calls) = i
        /\ \A k \in 1..Len(calls) : calls[k].url = ArchiveUrl(2021 - k)
        /\ checks = 1
        /\ events = <<"_download">>
        /\ ~SuperCalled

C6_Witness ==
    /\ pc = "raised"
    /\ error = URLError
    /\ Len(calls) = 5
    /\ calls[5].url = ArchiveUrl(2016)

\* C7: with download=False, download_and_extract_archive is never called and
\* the files under root are the same after construction as before, whether
\* construction succeeds or raises.
C7_NoDownloadIsReadOnly ==
    ~download =>
        /\ calls = <<>>
        /\ disk = disk0
        /\ ~printed

C7_Witness ==
    /\ pc = "constructed"
    /\ ~download
    /\ disk = disk0
    /\ \A y \in Years : Present(disk, y)

\* C8: the early-returning loop of _check_integrity gives the result of the
\* conjunction of the per-year checks; with checksum=False that result
\* depends only on which archives exist, and with all 13 present, whatever
\* their contents, construction reaches the base constructor with zero
\* download calls, for download=False and download=True alike.
C8_ExistenceOnlyWithoutChecksum ==
    /\ _check_integrity(disk) <=> AllValid(disk)
    /\ ~checksum =>
          /\ _check_integrity(disk) <=> \A y \in Years : Present(disk, y)
          /\ (\A y \in Years : Present(disk0, y)) =>
                /\ calls = <<>>
                /\ disk = disk0
                /\ pc # "raised"
                /\ Progress

C8_Witness ==
    /\ pc = "constructed"
    /\ ~checksum
    /\ download
    /\ calls = <<>>
    /\ \A y \in Years : Present(disk0, y) /\ ~Matches(disk0, y)

\* C9: with download=True and the integrity check failing, the download
\* phase fetches every registered year, valid ones included, one at a time
\* in registry order (2020 first, 2008 last), each with the year's registered
\* checksum when checksum=True and None otherwise, and with root as
\* destination.
C9_DownloadsEveryYearInOrder ==
    (download /\ ~AllValid(disk0)) =>
        /\ \A k \in 1..Len(calls) :
              calls[k] = [url |-> ArchiveUrl(2021 - k),
                          download_root |-> "data",
                          md5 |-> IF checksum THEN Registered(2021 - k) ELSE "None"]
        /\ pc = "download_and_extract_archive" => Len(calls) = i - 1
        /\ (pc \in {"_check_integrity", "constructed"} \/ error = DatasetError) =>
              Len(calls) = 13

C9_Witness ==
    /\ pc = "constructed"
    /\ download
    /\ checksum
    /\ Len(calls) = 13
    /\ ~Matches(disk0, 2008)
    /\ \A y \in Years \ {2008} : Matches(disk0, y)

\* the file name the download phase produces is the one the integrity
\* check probes, <year>_30m_cdls.zip
SameFileName ==
    \A k \in 1..Len(md5s) :
        /\ basename(format(url, md5s[k][1])) = format(filename, md5s[k][1])
        /\ format(filename, md5s[k][1]) = YearText(md5s[k][1]) \o <<"_30m_cdls.zip">>

\* C10: the download phase stores each year's archive under the file name
\* the integrity check probes; hence construction with download=True, from
\* any root, ends in the base constructor unless a download fails, in the
\* order download phase, integrity check, base constructor.
C10_DownloadThenCheckThenSuper ==
    /\ [](SameFileName)
    /\ [](download => error # DatasetError)
    /\ []((download /\ pc = "constructed") =>
             events = <<"_download", "_check_integrity", "super().__init__">>)
    /\ (download /\ pc = "__init__") ~>
          (pc = "constructed" \/ error.origin = "download_and_extract_archive")

C10_Witness ==
    /\ pc = "constructed"
    /\ download
    /\ Len(calls) = 13
    /\ \E y \in Years : ~Present(disk0, y)
    /\ \A y \in Years : Present(disk, y)

=============================================================================
